---- MODULE Spec2Model ----
(***************************************************************************)
(* The in-memory academic record store (server/storage.ts, MemStorage) and *)
(* the HTTP routes that call it (server/routes.ts).                        *)
(*                                                                         *)
(* Numbers are IEEE 754 doubles, computed as the source computes them: a   *)
(* cgpa text is parsed to the nearest double and every sum, quotient and   *)
(* product is rounded to a double.  averageCGPA is kept as the integer     *)
(* Math.round returns, a number of hundredths: the source divides it by    *)
(* 100, and that integer fixes the double it returns (248 is 2.48).        *)
(***************************************************************************)
EXTENDS Integers, Sequences, FiniteSets, TLC

VARIABLES students, subjects, now, seed, call

vars == <<students, subjects, now, seed, call>>

(***************************************************************************)
(* Bounds of the model.                                                    *)
(***************************************************************************)
MaxSubjects == 1
MaxClock == 1
MaxParsed == 2
MaxInterleaved == 1

(***************************************************************************)
(* JavaScript values: undefined, null, or a defined value.                 *)
(***************************************************************************)
Undefined == [t |-> "undefined"]
Null == [t |-> "null"]
Val(x) == [t |-> "val", v |-> x]

\* obj.f : a missing property reads as undefined
Get(obj, f) == IF f \in DOMAIN obj THEN obj[f] ELSE Undefined

\* { ...a, ...b } : every own property of b, undefined-valued ones included,
\* overrides a's
Spread(a, b) ==
    [f \in (DOMAIN a) \cup (DOMAIN b) |-> IF f \in DOMAIN b THEN b[f] ELSE a[f]]

\* x || 0 on an optional number
OrZero(x) == IF x.t = "val" /\ x.v # 0 THEN x ELSE Val(0)

\* x || [] on an optional array
OrEmptyList(x) == IF x.t = "val" THEN x.v ELSE <<>>

\* x || null on an optional string
OrNull(x) == IF x.t = "val" /\ x.v # "" THEN x ELSE Null

(***************************************************************************)
(* Map<string, T> as the sequence of its entries in insertion order.       *)
(***************************************************************************)
MapKeys(m) == {m[i].k : i \in 1..Len(m)}

MapHas(m, key) == key \in MapKeys(m)

MapGet(m, key) == m[CHOOSE i \in 1..Len(m) : m[i].k = key].v

\* Map.set: an existing key keeps its place, a new key goes last
MapSet(m, key, val) ==
    IF MapHas(m, key)
    THEN [i \in 1..Len(m) |-> IF m[i].k = key THEN [k |-> key, v |-> val] ELSE m[i]]
    ELSE Append(m, [k |-> key, v |-> val])

MapDelete(m, key) == SelectSeq(m, LAMBDA e : e.k # key)

MapValues(m) == [i \in 1..Len(m) |-> m[i].v]

Range(s) == {s[i] : i \in 1..Len(s)}

(***************************************************************************)
(* The data the operations are exercised with.                             *)
(***************************************************************************)
Ids == {"A0001", "A0002"}

NameOf(id) ==
    CASE id = "A0001" -> "Anya Taylor-Joy"
      [] id = "A0002" -> "Austin Butler"
      [] OTHER -> "Zendaya Coleman"

EmailOf(id) ==
    CASE id = "A0001" -> "A0001@uow.edu.my"
      [] id = "A0002" -> "A0002@uow.edu.my"
      [] OTHER -> "A0003@uow.edu.my"

Programme == "Bachelor of Information Systems (Hons)"

Intakes == {"Jun-25", "Sep-25"}

\* cgpa is stored as text: the characters of a decimal literal
Cgpa151 == <<"1", ".", "5", "1">>
Cgpa200 == <<"2", ".", "0", "0">>
Cgpa280 == <<"2", ".", "8", "0">>
Cgpa350 == <<"3", ".", "5", "0">>
Cgpa375 == <<"3", ".", "7", "5">>

\* an optional property: absent, or present with one of the values
Opt(f, S) == {<<>>} \cup {f :> v : v \in S}

\* InsertStudent: credits may be missing, undefined or a number
InsertStudents(ids, intakes, cgpas, credits) ==
    {[id |-> i, name |-> NameOf(i), email |-> EmailOf(i), intake |-> k,
      programme |-> Programme, cgpa |-> c] @@ cr :
        i \in ids, k \in intakes, c \in cgpas, cr \in Opt("credits", credits)}

\* Partial<InsertStudent>: any subset of the fields
PartialStudents(ids, intakes, cgpas, credits) ==
    {a @@ b @@ c @@ d :
        a \in Opt("id", ids), b \in Opt("intake", intakes),
        c \in Opt("cgpa", cgpas), d \in Opt("credits", credits)}

\* InsertSubject: grade and studentId may be missing
InsertSubjects ==
    {[code |-> "CSCI251", name |-> "Advanced Programming", status |-> "pass"] @@ sid :
        sid \in {"studentId" :> Val(i) : i \in Ids}}

\* the optional semester argument of the dashboard operations
SemesterKeys == {Undefined} \cup {Val(k) : k \in Intakes \cup {"all", ""}}

(***************************************************************************)
(* Numbers.  A JavaScript number is an IEEE 754 double: 53 significant     *)
(* bits, every result rounded to the nearest double, a tie to the even     *)
(* one.  A non-negative double is [m, e], the value m * 2^e with m below   *)
(* 2^53 (or 2^53 itself right after a rounding carried), and 0 is m = 0.   *)
(* m is a natural number of any size, kept as its digits in base Limb,     *)
(* lowest first, without leading zeros.                                    *)
(***************************************************************************)
LimbBits == 20

Limb == 2 ^ LimbBits

MantissaBits == 53

RECURSIVE BigOfNat(_)
BigOfNat(n) == IF n = 0 THEN <<>> ELSE <<n % Limb>> \o BigOfNat(n \div Limb)

\* for a number that fits an integer of the checker
RECURSIVE BigToNat(_)
BigToNat(a) == IF a = <<>> THEN 0 ELSE a[1] + Limb * BigToNat(Tail(a))

RECURSIVE BigAdd(_, _, _)
BigAdd(a, b, carry) ==
    IF a = <<>> /\ b = <<>> THEN BigOfNat(carry)
    ELSE LET x == (IF a = <<>> THEN 0 ELSE a[1]) + (IF b = <<>> THEN 0 ELSE b[1]) + carry
         IN  <<x % Limb>> \o BigAdd(IF a = <<>> THEN <<>> ELSE Tail(a),
                                    IF b = <<>> THEN <<>> ELSE Tail(b), x \div Limb)

\* a * k + carry for small k and carry (at most 2047, so that a product of a
\* digit and k stays an integer of the checker)
RECURSIVE BigMulSmall(_, _, _)
BigMulSmall(a, k, carry) ==
    IF a = <<>> THEN BigOfNat(carry)
    ELSE LET x == a[1] * k + carry
         IN  <<x % Limb>> \o BigMulSmall(Tail(a), k, x \div Limb)

RECURSIVE BigStrip(_)
BigStrip(a) ==
    IF a # <<>> /\ a[Len(a)] = 0 THEN BigStrip(SubSeq(a, 1, Len(a) - 1)) ELSE a

\* quotient (with leading zeros) and remainder of a by a small n
RECURSIVE BigDivMod(_, _)
BigDivMod(a, n) ==
    IF a = <<>> THEN [q |-> <<>>, r |-> 0]
    ELSE LET high == BigDivMod(Tail(a), n)
             x == high.r * Limb + a[1]
         IN  [q |-> <<x \div n>> \o high.q, r |-> x % n]

\* floor(a / n), and whether the division left a remainder
BigDivSmall(a, n) ==
    [q |-> BigStrip(BigDivMod(a, n).q), inexact |-> BigDivMod(a, n).r # 0]

RECURSIVE SmallBitLen(_)
SmallBitLen(x) == IF x = 0 THEN 0 ELSE 1 + SmallBitLen(x \div 2)

BitLen(a) == IF a = <<>> THEN 0 ELSE LimbBits * (Len(a) - 1) + SmallBitLen(a[Len(a)])

\* a * 2^s
RECURSIVE BigShl(_, _)
BigShl(a, s) ==
    IF a = <<>> \/ s = 0 THEN a
    ELSE IF s >= LimbBits THEN <<0>> \o BigShl(a, s - LimbBits)
    ELSE IF s >= 10 THEN BigShl(BigMulSmall(a, 2 ^ 10, 0), s - 10)
    ELSE BigMulSmall(a, 2 ^ s, 0)

\* floor(a / 2^s), and whether bits were lost
RECURSIVE BigShr(_, _)
BigShr(a, s) ==
    IF a = <<>> \/ s = 0 THEN [q |-> a, inexact |-> FALSE]
    ELSE IF s >= LimbBits
    THEN [q |-> BigShr(Tail(a), s - LimbBits).q,
          inexact |-> a[1] # 0 \/ BigShr(Tail(a), s - LimbBits).inexact]
    ELSE IF s >= 10
    THEN [q |-> BigShr(BigDivSmall(a, 2 ^ 10).q, s - 10).q,
          inexact |-> BigDivSmall(a, 2 ^ 10).inexact
                        \/ BigShr(BigDivSmall(a, 2 ^ 10).q, s - 10).inexact]
    ELSE BigDivSmall(a, 2 ^ s)

RECURSIVE BigLess(_, _)
BigLess(a, b) ==
    IF Len(a) # Len(b) THEN Len(a) < Len(b)
    ELSE IF a = <<>> THEN FALSE
    ELSE IF a[Len(a)] # b[Len(b)] THEN a[Len(a)] < b[Len(b)]
    ELSE BigLess(SubSeq(a, 1, Len(a) - 1), SubSeq(b, 1, Len(b) - 1))

Zero == [m |-> <<>>, e |-> 0]

\* the double nearest to x * 2^e, or to a number just above it when inexact
\* says that x is the floor of the exact number; a tie goes to the even double
roundToDouble(x, e, inexact) ==
    IF x = <<>> THEN Zero
    ELSE IF BitLen(x) <= MantissaBits THEN [m |-> x, e |-> e]
    ELSE LET s == BitLen(x) - MantissaBits
             guarded == BigShr(x, s - 1)
             kept == BigDivSmall(guarded.q, 2).q
             guard == guarded.q[1] % 2
             sticky == guarded.inexact \/ inexact
             up == guard = 1 /\ (sticky \/ kept[1] % 2 = 1)
         IN  [m |-> IF up THEN BigAdd(kept, <<>>, 1) ELSE kept, e |-> e + s]

\* x + y, x * k and x / n as the double operations compute them
doubleAdd(x, y) ==
    IF x.m = <<>> THEN y
    ELSE IF y.m = <<>> THEN x
    ELSE LET e == IF x.e < y.e THEN x.e ELSE y.e
         IN  roundToDouble(BigAdd(BigShl(x.m, x.e - e), BigShl(y.m, y.e - e), 0),
                           e, FALSE)

doubleTimes(x, k) == roundToDouble(BigMulSmall(x.m, k, 0), x.e, FALSE)

\* the quotient is taken with 64 bits more than a double keeps
doubleOver(x, n) ==
    LET k == 2 * MantissaBits + 11 - BitLen(x.m)
        d == BigDivSmall(BigShl(x.m, k), n)
    IN  roundToDouble(d.q, x.e - k, d.inexact)

doubleLess(x, y) ==
    IF x.m = <<>> THEN y.m # <<>>
    ELSE IF y.m = <<>> THEN FALSE
    ELSE LET e == IF x.e < y.e THEN x.e ELSE y.e
         IN  BigLess(BigShl(x.m, x.e - e), BigShl(y.m, y.e - e))

(***************************************************************************)
(* parseFloat on a decimal literal: digits, and optionally a point and     *)
(* more digits.  The result is the double nearest to the decimal.          *)
(***************************************************************************)
Digit(c) ==
    CASE c = "0" -> 0 [] c = "1" -> 1 [] c = "2" -> 2 [] c = "3" -> 3 [] c = "4" -> 4
      [] c = "5" -> 5 [] c = "6" -> 6 [] c = "7" -> 7 [] c = "8" -> 8 [] c = "9" -> 9

\* the natural number a string of digits writes
RECURSIVE DigitsValue(_)
DigitsValue(ds) ==
    IF ds = <<>> THEN <<>>
    ELSE BigMulSmall(DigitsValue(SubSeq(ds, 1, Len(ds) - 1)), 10, Digit(ds[Len(ds)]))

DotPos(txt) ==
    IF \E i \in 1..Len(txt) : txt[i] = "."
    THEN CHOOSE i \in 1..Len(txt) : txt[i] = "." /\ \A j \in 1..(i - 1) : txt[j] # "."
    ELSE Len(txt) + 1

\* floor(a / 10^d), and whether a remainder was left
RECURSIVE OverPowerOfTen(_, _)
OverPowerOfTen(a, d) ==
    IF d = 0 THEN [q |-> a, inexact |-> FALSE]
    ELSE [q |-> OverPowerOfTen(BigDivSmall(a, 10).q, d - 1).q,
          inexact |-> BigDivSmall(a, 10).inexact
                        \/ OverPowerOfTen(BigDivSmall(a, 10).q, d - 1).inexact]

parseFloat(txt) ==
    LET p == DotPos(txt)
        digits == SubSeq(txt, 1, p - 1) \o SubSeq(txt, p + 1, Len(txt))
        d == Len(txt) - p
        n == BigStrip(DigitsValue(digits))
        k == MantissaBits + 2 + 4 * d
        scaled == OverPowerOfTen(BigShl(n, k), d)
    IN  IF d <= 0 THEN roundToDouble(n, 0, FALSE)
        ELSE roundToDouble(scaled.q, 0 - k, scaled.inexact)

\* comparisons of an optional number with a number: undefined compares false
NumGE(x, n) == x.t = "val" /\ x.v >= n
NumGT(x, n) == x.t = "val" /\ x.v > n
NumLT(x, n) == x.t = "val" /\ x.v < n

(***************************************************************************)
(* MemStorage: the read operations, as functions of the two collections.   *)
(***************************************************************************)
getSubjectsByStudentId(subjs, studentId) ==
    SelectSeq(MapValues(subjs), LAMBDA s : s.studentId = Val(studentId))

getStudent(studs, subjs, id) ==
    IF ~MapHas(studs, id) THEN Undefined
    ELSE Spread(MapGet(studs, id), [subjects |-> getSubjectsByStudentId(subjs, id)])

getAllStudents(studs, subjs) ==
    [i \in 1..Len(studs) |->
        Spread(studs[i].v, [subjects |-> getSubjectsByStudentId(subjs, studs[i].v.id)])]

getStudentsBySemester(studs, subjs, semester) ==
    SelectSeq(getAllStudents(studs, subjs), LAMBDA s : s.intake = semester)

(***************************************************************************)
(* The analytics operations.                                               *)
(***************************************************************************)
\* the literals 3.75 and 2.00 of the source, and the 100 of the rounding
DeansListCgpa == parseFloat(<<"3", ".", "7", "5">>)
DeansListCredits == 12
ProbationCgpa == parseFloat(<<"2", ".", "0", "0">>)
Scale == 100

\* Math.round(x) for a double x >= 0: floor(x + 1/2), taken exactly
mathRound(x) ==
    IF x.m = <<>> THEN 0
    ELSE IF x.e >= 0 THEN BigToNat(BigShl(x.m, x.e))
    ELSE (BigToNat(BigShr(x.m, 0 - x.e - 1).q) + 1) \div 2

\* students.reduce((sum, s) => sum + parseFloat(s.cgpa), 0)
RECURSIVE sumCgpa(_)
sumCgpa(list) ==
    IF list = <<>> THEN Zero
    ELSE doubleAdd(sumCgpa(SubSeq(list, 1, Len(list) - 1)),
                   parseFloat(list[Len(list)].cgpa))

\* semester && semester !== 'all'
metricsStudents(studs, subjs, semester) ==
    IF semester.t = "val" /\ semester.v # "" /\ semester.v # "all"
    THEN getStudentsBySemester(studs, subjs, semester.v)
    ELSE getAllStudents(studs, subjs)

\* the figures computed from the resolved list
metricsOf(list) ==
    LET totalStudents == Len(list)
        deansListCount ==
            Len(SelectSeq(list, LAMBDA s :
                ~doubleLess(parseFloat(s.cgpa), DeansListCgpa)
                /\ NumGE(s.credits, DeansListCredits)))
        probationCount ==
            Len(SelectSeq(list, LAMBDA s : doubleLess(parseFloat(s.cgpa), ProbationCgpa)))
    IN  [totalStudents |-> totalStudents,
         deansListCount |-> deansListCount,
         probationCount |-> probationCount,
         averageCGPA |->
            mathRound(doubleTimes(IF totalStudents > 0
                                  THEN doubleOver(sumCgpa(list), totalStudents)
                                  ELSE Zero, Scale))]

getDashboardMetrics(studs, subjs, semester) ==
    metricsOf(metricsStudents(studs, subjs, semester))

performanceStudents(studs, subjs, semester) ==
    IF semester.t = "val" /\ semester.v # "" /\ semester.v # "all"
    THEN getStudentsBySemester(studs, subjs, semester.v)
    ELSE getAllStudents(studs, subjs)

\* the three lists filtered from the resolved list
performanceOf(list) ==
    [deansListStudents |->
        SelectSeq(list, LAMBDA s :
            ~doubleLess(parseFloat(s.cgpa), DeansListCgpa)
            /\ NumGE(s.credits, DeansListCredits)),
     probationStudents |->
        SelectSeq(list, LAMBDA s :
            doubleLess(parseFloat(s.cgpa), ProbationCgpa) /\ NumGT(s.credits, 0)),
     goodStandingStudents |->
        SelectSeq(list, LAMBDA s :
            ~doubleLess(parseFloat(s.cgpa), ProbationCgpa)
            /\ (doubleLess(parseFloat(s.cgpa), DeansListCgpa)
                \/ NumLT(s.credits, DeansListCredits)))]

getDashboardPerformance(studs, subjs, semester) ==
    performanceOf(performanceStudents(studs, subjs, semester))

(***************************************************************************)
(* MemStorage: the records the writes store.                               *)
(***************************************************************************)
\* mutant: credits is stored as given, with no default
newStudent_noDefault(insertStudent, t) ==
    Spread(insertStudent,
           [credits |-> Get(insertStudent, "credits"),
            subjects |-> OrEmptyList(Get(insertStudent, "subjects")),
            createdAt |-> t])

\* the Student createStudent builds from its input at time t
newStudent(insertStudent, t) ==
    Spread(insertStudent,
           [credits |-> OrZero(Get(insertStudent, "credits")),
            subjects |-> OrEmptyList(Get(insertStudent, "subjects")),
            createdAt |-> t])

\* the Student updateStudent stores
updatedStudent(existingStudent, updateData) == Spread(existingStudent, updateData)

\* a key the subject map does not hold
randomUUID(subjs) == Len(subjs) + 1

newSubject(subject, id) ==
    Spread(Spread(subject, [id |-> id]),
           [grade |-> OrNull(Get(subject, "grade")),
            studentId |-> OrNull(Get(subject, "studentId"))])

\* what each write does to the two maps; it is done before the method's first
\* await
CreateStudentStep(input) ==
    /\ students' = MapSet(students, newStudent(input, now).id, newStudent(input, now))
    /\ UNCHANGED <<subjects, now>>

UpdateStudentStep(id, updateData) ==
    /\ students' = IF MapHas(students, id)
                   THEN MapSet(students, id,
                               updatedStudent(MapGet(students, id), updateData))
                   ELSE students
    /\ UNCHANGED <<subjects, now>>

\* mutant: the delete cascades to the student's subjects
DeleteStudentStep_cascade(id) ==
    /\ students' = MapDelete(students, id)
    /\ subjects' = SelectSeq(subjects, LAMBDA e : e.v.studentId # Val(id))
    /\ UNCHANGED now

DeleteStudentStep(id) ==
    /\ students' = MapDelete(students, id)
    /\ UNCHANGED <<subjects, now>>

CreateSubjectStep(input) ==
    /\ Len(subjects) < MaxSubjects
    /\ subjects' = MapSet(subjects, randomUUID(subjects),
                          newSubject(input, randomUUID(subjects)))
    /\ UNCHANGED <<students, now>>

(***************************************************************************)
(* Calls in flight.  Every method of MemStorage is async: it runs from its *)
(* call to its first await (or to its return) in one step, each await      *)
(* hands control back, and the rest of the method runs in a later step;    *)
(* the caller's own await gets the value later still.  Other operations    *)
(* can be called in between.                                               *)
(*                                                                         *)
(* call is the operation whose return is followed: its name and argument,  *)
(* the frames still to resume (call.stack, innermost first), the locals of *)
(* those frames (studs, subs, value), and the two maps as they were when   *)
(* it was called (atStudents, atSubjects).  A write called while that      *)
(* operation is in flight acts on the maps at its call; its own return is  *)
(* not followed, and call.writes counts these writes.                      *)
(***************************************************************************)
Idle == [pc |-> "idle"]

Frame(op, args, stack, studs, subs, value) ==
    [op |-> op, args |-> args, stack |-> stack, studs |-> studs, subs |-> subs,
     value |-> value, atStudents |-> students, atSubjects |-> subjects, writes |-> 0]

\* a method that returns without an await, called: followed when no other
\* operation is in flight, else one more write under the operation in flight
Called(op, args, value) ==
    IF call = Idle
    THEN Frame(op, args, <<>>, <<>>, <<>>, value)
    ELSE [call EXCEPT !.writes = @ + 1]

CanWrite == IF call = Idle THEN TRUE ELSE call.writes < MaxInterleaved

Resumed(value) == [call EXCEPT !.stack = Tail(call.stack), !.value = value]

Resuming(frame) == call # Idle /\ call.stack # <<>> /\ Head(call.stack) = frame

\* the caller's await gets the value
Return ==
    /\ call # Idle
    /\ call.stack = <<>>
    /\ call' = Idle
    /\ UNCHANGED <<students, subjects, now, seed>>

\* new Date() moves on between steps
Tick ==
    /\ now < MaxClock
    /\ now' = now + 1
    /\ UNCHANGED <<students, subjects, seed, call>>

(***************************************************************************)
(* MemStorage: the write operations.                                       *)
(***************************************************************************)
\* createStudent has no await: it stores and returns in the step of its call
CreateStudent(input) ==
    /\ CanWrite
    /\ CreateStudentStep(input)
    /\ call' = Called("createStudent", input,
                      Spread(newStudent(input, now), [subjects |-> <<>>]))
    /\ UNCHANGED seed

\* updateStudent up to its await: a missing key returns undefined at once; else
\* the student is stored and getSubjectsByStudentId has read the subjects
CallUpdateStudent(id, updateData) ==
    /\ call = Idle
    /\ UpdateStudentStep(id, updateData)
    /\ call' = IF MapHas(students, id)
               THEN Frame("updateStudent", [id |-> id, data |-> updateData],
                          <<"updateStudent">>,
                          <<updatedStudent(MapGet(students, id), updateData)>>,
                          <<getSubjectsByStudentId(subjects, id)>>, Undefined)
               ELSE Frame("updateStudent", [id |-> id, data |-> updateData],
                          <<>>, <<>>, <<>>, Undefined)
    /\ UNCHANGED seed

\* updateStudent after its await: return { ...updatedStudent, subjects }
ResumeUpdateStudent ==
    /\ Resuming("updateStudent")
    /\ call' = Resumed(Spread(call.studs[1], [subjects |-> call.subs[1]]))
    /\ UNCHANGED <<students, subjects, now, seed>>

\* updateStudent called while another operation is in flight
InterleavedUpdateStudent(id, updateData) ==
    /\ call # Idle
    /\ call.writes < MaxInterleaved
    /\ UpdateStudentStep(id, updateData)
    /\ call' = [call EXCEPT !.writes = @ + 1]
    /\ UNCHANGED seed

\* deleteStudent has no await
DeleteStudent(id) ==
    /\ CanWrite
    /\ DeleteStudentStep(id)
    /\ call' = Called("deleteStudent", id, MapHas(students, id))
    /\ UNCHANGED seed

\* createSubject has no await
CreateSubject(input) ==
    /\ CanWrite
    /\ CreateSubjectStep(input)
    /\ call' = Called("createSubject", input, newSubject(input, randomUUID(subjects)))
    /\ UNCHANGED seed

(***************************************************************************)
(* MemStorage: the read operations.                                        *)
(***************************************************************************)
\* what getAllStudents does before its await: the students are listed and each
\* map callback runs up to its own await, after getSubjectsByStudentId has read
\* the subjects
getAllStudentsCalled(op, args, outer) ==
    Frame(op, args,
          [i \in 1..Len(students) |-> "callback"] \o <<"getAllStudents">> \o outer,
          MapValues(students),
          [i \in 1..Len(students) |->
                getSubjectsByStudentId(subjects, students[i].v.id)],
          <<>>)

CallGetStudent(id) ==
    /\ call = Idle
    /\ call' = IF MapHas(students, id)
               THEN Frame("getStudent", id, <<"getStudent">>,
                          <<MapGet(students, id)>>,
                          <<getSubjectsByStudentId(subjects, id)>>, Undefined)
               ELSE Frame("getStudent", id, <<>>, <<>>, <<>>, Undefined)
    /\ UNCHANGED <<students, subjects, now, seed>>

\* return { ...student, subjects }
ResumeGetStudent ==
    /\ Resuming("getStudent")
    /\ call' = Resumed(Spread(call.studs[1], [subjects |-> call.subs[1]]))
    /\ UNCHANGED <<students, subjects, now, seed>>

CallGetAllStudents ==
    /\ call = Idle
    /\ call' = getAllStudentsCalled("getAllStudents", Undefined, <<>>)
    /\ UNCHANGED <<students, subjects, now, seed>>

\* mutant: the callback reads the subjects after its await
ResumeCallback_lateRead ==
    /\ Resuming("callback")
    /\ call' = Resumed(Append(call.value,
                    Spread(call.studs[Len(call.value) + 1],
                           [subjects |-> getSubjectsByStudentId(subjects,
                                call.studs[Len(call.value) + 1].id)])))
    /\ UNCHANGED <<students, subjects, now, seed>>

\* a map callback after its await: return { ...student, subjects }
ResumeCallback ==
    /\ Resuming("callback")
    /\ call' = Resumed(Append(call.value,
                    Spread(call.studs[Len(call.value) + 1],
                           [subjects |-> call.subs[Len(call.value) + 1]])))
    /\ UNCHANGED <<students, subjects, now, seed>>

\* getAllStudents after Promise.all: return studentsWithSubjects
ResumeGetAllStudents ==
    /\ Resuming("getAllStudents")
    /\ call' = Resumed(call.value)
    /\ UNCHANGED <<students, subjects, now, seed>>

CallGetStudentsBySemester(semester) ==
    /\ call = Idle
    /\ call' = getAllStudentsCalled("getStudentsBySemester", semester,
                                    <<"getStudentsBySemester">>)
    /\ UNCHANGED <<students, subjects, now, seed>>

\* the semester a frame filters by
FrameSemester == IF call.op = "getStudentsBySemester" THEN call.args ELSE call.args.v

\* getStudentsBySemester after its await: the filter
ResumeGetStudentsBySemester ==
    /\ Resuming("getStudentsBySemester")
    /\ call' = Resumed(SelectSeq(call.value, LAMBDA s : s.intake = FrameSemester))
    /\ UNCHANGED <<students, subjects, now, seed>>

\* the frames under a dashboard operation: semester && semester !== 'all'
dashboardFrames(semester) ==
    IF semester.t = "val" /\ semester.v # "" /\ semester.v # "all"
    THEN <<"getStudentsBySemester">>
    ELSE <<>>

CallGetDashboardMetrics(semester) ==
    /\ call = Idle
    /\ call' = getAllStudentsCalled("getDashboardMetrics", semester,
                    dashboardFrames(semester) \o <<"getDashboardMetrics">>)
    /\ UNCHANGED <<students, subjects, now, seed>>

ResumeGetDashboardMetrics ==
    /\ Resuming("getDashboardMetrics")
    /\ call' = Resumed(metricsOf(call.value))
    /\ UNCHANGED <<students, subjects, now, seed>>

CallGetDashboardPerformance(semester) ==
    /\ call = Idle
    /\ call' = getAllStudentsCalled("getDashboardPerformance", semester,
                    dashboardFrames(semester) \o <<"getDashboardPerformance">>)
    /\ UNCHANGED <<students, subjects, now, seed>>

ResumeGetDashboardPerformance ==
    /\ Resuming("getDashboardPerformance")
    /\ call' = Resumed(performanceOf(call.value))
    /\ UNCHANGED <<students, subjects, now, seed>>

(***************************************************************************)
(* routes.ts: the two performance endpoints.  A handler calls a method of  *)
(* the storage object inside a try block and awaits it; calling a property *)
(* the object does not have throws a TypeError before anything is awaited, *)
(* and the handler's catch answers 500 in the step of the request.         *)
(***************************************************************************)
storageMethods ==
    {"getStudent", "getStudentByEmail", "createStudent", "getAllStudents",
     "getStudentsBySemester", "updateStudent", "deleteStudent", "createSubject",
     "getSubjectsByStudentId", "getDashboardMetrics", "getDashboardPerformance"}

\* the outcome of the try block: the call threw, or the awaited value
callStorage(method, value) ==
    IF method \in storageMethods
    THEN [threw |-> FALSE, value |-> value]
    ELSE [threw |-> TRUE]

performanceResponse(result) ==
    IF result.threw
    THEN [status |-> 500, body |-> [message |-> "Failed to fetch performance data"]]
    ELSE [status |-> 200, body |-> result.value]

RouteQuery == "GET /api/dashboard/performance"

RouteParam == "GET /api/dashboard/performance/:semester"

\* GET /api/dashboard/performance?semester=...: storage.getPerformanceData(...)
RoutePerformanceQuery(semester) ==
    /\ call = Idle
    /\ callStorage("getPerformanceData", Undefined).threw
    /\ call' = Frame(RouteQuery, semester, <<>>, <<>>, <<>>,
                     performanceResponse(callStorage("getPerformanceData", Undefined)))
    /\ UNCHANGED <<students, subjects, now, seed>>

\* GET /api/dashboard/performance/:semester up to its await:
\* storage.getDashboardPerformance(semester) is called
CallRoutePerformanceParam(semester) ==
    /\ call = Idle
    /\ ~callStorage("getDashboardPerformance", Undefined).threw
    /\ call' = getAllStudentsCalled(RouteParam, semester,
                    dashboardFrames(semester)
                        \o <<"getDashboardPerformance", RouteParam>>)
    /\ UNCHANGED <<students, subjects, now, seed>>

\* the handler after its await: res.json(performanceData)
ResumeRoutePerformanceParam ==
    /\ Resuming(RouteParam)
    /\ call' = Resumed(performanceResponse(
                            callStorage("getDashboardPerformance", call.value)))
    /\ UNCHANGED <<students, subjects, now, seed>>

(***************************************************************************)
(* Construction: seedData loads the parsed CSV, or the fallback students   *)
(* when anything inside its try block throws.                              *)
(***************************************************************************)
sampleStudents ==
    << [id |-> "A0001", name |-> "Anya Taylor-Joy", email |-> "A0001@uow.edu.my",
        intake |-> "Jun-25", programme |-> Programme, cgpa |-> Cgpa350,
        credits |-> Val(18)],
       [id |-> "A0002", name |-> "Austin Butler", email |-> "A0002@uow.edu.my",
        intake |-> "Jun-25", programme |-> Programme, cgpa |-> Cgpa280,
        credits |-> Val(15)] >>

\* the Student the try block stores for a parsed record
loadedStudent(student, t) ==
    Spread(student,
           [credits |-> OrZero(Get(student, "credits")),
            subjects |-> OrEmptyList(Get(student, "subjects")),
            createdAt |-> t])

\* the Student the catch block stores for a sample record
fallbackStudent(student, t) ==
    Spread(student,
           [credits |-> OrZero(Get(student, "credits")),
            subjects |-> OrEmptyList(Get(student, "subjects")),
            createdAt |-> t])

\* sampleStudents.forEach(student => this.students.set(...))
RECURSIVE setFallback(_, _, _)
setFallback(studs, list, t) ==
    IF list = <<>> THEN studs
    ELSE setFallback(MapSet(studs, Head(list).id, fallbackStudent(Head(list), t)),
                     Tail(list), t)

Ready(failed) == [pc |-> "ready", failed |-> failed, ps |-> <<>>, pj |-> <<>>]

\* the try block: parseStudentCSV() returns or throws
ParseReturns(ps, pj) ==
    /\ seed.pc = "parse"
    /\ seed' = [pc |-> "students", failed |-> FALSE, ps |-> ps, pj |-> pj]
    /\ UNCHANGED <<students, subjects, now, call>>

ParseThrows ==
    /\ seed.pc = "parse"
    /\ seed' = [seed EXCEPT !.pc = "catch"]
    /\ UNCHANGED <<students, subjects, now, call>>

\* students.forEach: one parsed record; reading a property of a null record throws
LoadStudent ==
    /\ seed.pc = "students"
    /\ seed.ps # <<>>
    /\ IF Head(seed.ps) = Null
       THEN /\ seed' = [seed EXCEPT !.pc = "catch"]
            /\ UNCHANGED students
       ELSE /\ students' = MapSet(students, Head(seed.ps).id,
                                  loadedStudent(Head(seed.ps), now))
            /\ seed' = [seed EXCEPT !.ps = Tail(seed.ps)]
    /\ UNCHANGED <<subjects, now, call>>

StudentsLoaded ==
    /\ seed.pc = "students"
    /\ seed.ps = <<>>
    /\ seed' = [seed EXCEPT !.pc = "subjects"]
    /\ UNCHANGED <<students, subjects, now, call>>

\* subjects.forEach: one parsed record
LoadSubject ==
    /\ seed.pc = "subjects"
    /\ seed.pj # <<>>
    /\ IF Head(seed.pj) = Null
       THEN /\ seed' = [seed EXCEPT !.pc = "catch"]
            /\ UNCHANGED subjects
       ELSE /\ subjects' = MapSet(subjects, randomUUID(subjects),
                                  [id |-> randomUUID(subjects),
                                   code |-> Head(seed.pj).code,
                                   name |-> Head(seed.pj).name,
                                   grade |-> Head(seed.pj).grade,
                                   status |-> Head(seed.pj).status,
                                   studentId |-> Head(seed.pj).studentId])
            /\ seed' = [seed EXCEPT !.pj = Tail(seed.pj)]
    /\ UNCHANGED <<students, now, call>>

SubjectsLoaded ==
    /\ seed.pc = "subjects"
    /\ seed.pj = <<>>
    /\ seed' = Ready(FALSE)
    /\ UNCHANGED <<students, subjects, now, call>>

\* mutant: the catch block only logs the error
SeedCatch_logOnly ==
    /\ seed.pc = "catch"
    /\ seed' = Ready(TRUE)
    /\ UNCHANGED <<students, subjects, now, call>>

\* the catch block
SeedCatch ==
    /\ seed.pc = "catch"
    /\ students' = setFallback(students, sampleStudents, now)
    /\ seed' = Ready(TRUE)
    /\ UNCHANGED <<subjects, now, call>>

(***************************************************************************)
(* Spec: the store after construction, under its create, update, delete    *)
(* and getStudent operations.                                              *)
(***************************************************************************)
StoreInserts == InsertStudents(Ids, {"Jun-25"}, {Cgpa350}, {Val(15)})

StorePartials == PartialStudents({"A0001"}, {}, {}, {Undefined})

StoreSubjects == {s \in InsertSubjects : s.studentId = Val("A0001")}

\* the store construction leaves when the CSV files cannot be loaded
Init ==
    /\ now = 0
    /\ subjects = <<>>
    /\ call = Idle
    /\ seed = Ready(TRUE)
    /\ students = setFallback(<<>>, sampleStudents, 0)

Next ==
    \/ \E input \in StoreInserts : CreateStudent(input)
    \/ \E id \in Ids, data \in StorePartials : CallUpdateStudent(id, data)
    \/ \E id \in Ids, data \in StorePartials : InterleavedUpdateStudent(id, data)
    \/ ResumeUpdateStudent
    \/ \E id \in Ids : DeleteStudent(id)
    \/ \E input \in StoreSubjects : CreateSubject(input)
    \/ \E id \in Ids : CallGetStudent(id)
    \/ ResumeGetStudent
    \/ Return
    \/ Tick

Spec == Init /\ [][Next]_vars

(***************************************************************************)
(* SpecDash: the store under creates, updates and deletes, read by the     *)
(* filtered listings, the analytics operations and the two routes.         *)
(***************************************************************************)
DashInserts == InsertStudents(Ids, {"Sep-25"}, {Cgpa151, Cgpa200, Cgpa375}, {Val(12)})

DashPartials == PartialStudents({}, {}, {}, {Undefined})

\* a path parameter is a non-empty string
RouteParams == {Val(k) : k \in Intakes \cup {"all"}}

NextDash ==
    \/ \E input \in DashInserts : CreateStudent(input)
    \/ \E id \in Ids, data \in DashPartials : CallUpdateStudent(id, data)
    \/ \E id \in Ids, data \in DashPartials : InterleavedUpdateStudent(id, data)
    \/ ResumeUpdateStudent
    \/ \E id \in Ids : DeleteStudent(id)
    \/ CallGetAllStudents
    \/ \E k \in Intakes \cup {""} : CallGetStudentsBySemester(k)
    \/ \E semester \in SemesterKeys : CallGetDashboardMetrics(semester)
    \/ \E semester \in SemesterKeys : CallGetDashboardPerformance(semester)
    \/ \E semester \in SemesterKeys : RoutePerformanceQuery(semester)
    \/ \E semester \in RouteParams : CallRoutePerformanceParam(semester)
    \/ ResumeCallback
    \/ ResumeGetAllStudents
    \/ ResumeGetStudentsBySemester
    \/ ResumeGetDashboardMetrics
    \/ ResumeGetDashboardPerformance
    \/ ResumeRoutePerformanceParam
    \/ Return

SpecDash == Init /\ [][NextDash]_vars

(***************************************************************************)
(* SpecSeed: construction step by step, then the reads of the new store.   *)
(***************************************************************************)
\* what parseStudentCSV may return: records, or null where a row went wrong
ParsedStudentRecords ==
    InsertStudents({"A0001", "A0003"}, {"Jun-25"}, {Cgpa200}, {Val(12)}) \cup {Null}

ParsedSubjectRecords ==
    {[code |-> "CSCI251", name |-> "Advanced Programming", grade |-> Val("A"),
      status |-> "pass", studentId |-> Val("A0003")], Null}

SeqsUpTo(S, n) == UNION {[1..k -> S] : k \in 0..n}

InitSeed ==
    /\ now = 0
    /\ students = <<>>
    /\ subjects = <<>>
    /\ call = Idle
    /\ seed = [pc |-> "parse", failed |-> FALSE, ps |-> <<>>, pj |-> <<>>]

NextSeed ==
    \/ \E ps \in SeqsUpTo(ParsedStudentRecords, MaxParsed),
          pj \in SeqsUpTo(ParsedSubjectRecords, MaxSubjects) : ParseReturns(ps, pj)
    \/ ParseThrows
    \/ LoadStudent
    \/ StudentsLoaded
    \/ LoadSubject
    \/ SubjectsLoaded
    \/ SeedCatch
    \/ (seed.pc = "ready" /\ \E id \in Ids \cup {"A0003"} : CallGetStudent(id))
    \/ (seed.pc = "ready" /\ CallGetAllStudents)
    \/ ResumeGetStudent
    \/ ResumeCallback
    \/ ResumeGetAllStudents
    \/ Return

SpecSeed == InitSeed /\ [][NextSeed]_vars

(***************************************************************************)
(* SpecAsync: one read in flight under any number of writes.  Only the     *)
(* read's return is followed; a write is its effect on the maps.           *)
(***************************************************************************)
AsyncInserts ==
    {[sampleStudents[i] EXCEPT !.intake = k] : i \in 1..Len(sampleStudents), k \in Intakes}

AsyncPartials == PartialStudents({}, Intakes, {}, {})

AsyncSemesters == {Undefined, Val("Jun-25")}

NextAsync ==
    \/ \E input \in AsyncInserts : CreateStudentStep(input) /\ UNCHANGED <<seed, call>>
    \/ \E id \in Ids, data \in AsyncPartials :
            UpdateStudentStep(id, data) /\ UNCHANGED <<seed, call>>
    \/ \E id \in Ids : DeleteStudentStep(id) /\ UNCHANGED <<seed, call>>
    \/ \E input \in InsertSubjects : CreateSubjectStep(input) /\ UNCHANGED <<seed, call>>
    \/ \E id \in Ids : CallGetStudent(id)
    \/ CallGetAllStudents
    \/ \E k \in Intakes : CallGetStudentsBySemester(k)
    \/ \E semester \in AsyncSemesters : CallGetDashboardMetrics(semester)
    \/ \E semester \in AsyncSemesters : CallGetDashboardPerformance(semester)
    \/ ResumeGetStudent
    \/ ResumeCallback
    \/ ResumeGetAllStudents
    \/ ResumeGetStudentsBySemester
    \/ ResumeGetDashboardMetrics
    \/ ResumeGetDashboardPerformance
    \/ Return

SpecAsync == Init /\ [][NextAsync]_vars

(***************************************************************************)
(* Properties of the store operations (Spec).                              *)
(***************************************************************************)
RemoveAt(s, p) == SubSeq(s, 1, p - 1) \o SubSeq(s, p + 1, Len(s))

KeyPos(m, key) == CHOOSE i \in 1..Len(m) : m[i].k = key

\* the followed operation is op and all its frames have returned
Done(op) == call # Idle /\ call.stack = <<>> /\ call.op = op

\* this step is the call of op, as the followed operation
Calls(op) == call = Idle /\ call' # Idle /\ call'.op = op

\* C1: updateStudent(id, partial) on a stored student changes only the fields
\* present in the partial input, and leaves id and createdAt as they were.
C1_UpdateKeepsIdAndOtherFields ==
    [][(/\ Calls("updateStudent")
        /\ CallUpdateStudent(call'.args.id, call'.args.data)
        /\ MapHas(students, call'.args.id)) =>
            LET id == call'.args.id
                data == call'.args.data
            IN  /\ MapHas(students', id)
                /\ DOMAIN MapGet(students', id) \subseteq
                        (DOMAIN MapGet(students, id)) \cup (DOMAIN data)
                /\ \A f \in (DOMAIN MapGet(students, id)) \ (DOMAIN data) :
                        MapGet(students', id)[f] = MapGet(students, id)[f]
                /\ MapGet(students', id).id = MapGet(students, id).id
                /\ MapGet(students', id).createdAt =
                        MapGet(students, id).createdAt]_vars

\* the record createStudent is to return for an input at time t: the input's
\* fields, credits defaulted to 0, createdAt t, no subjects
CreatedRecordIs(ret, input, t) ==
    /\ DOMAIN ret = (DOMAIN input) \cup {"credits", "subjects", "createdAt"}
    /\ \A f \in (DOMAIN input) \ {"credits"} : ret[f] = input[f]
    /\ Get(ret, "credits") =
            (IF Get(input, "credits").t = "val" THEN input.credits ELSE Val(0))
    /\ Get(ret, "createdAt") = t
    /\ Get(ret, "subjects") = <<>>

\* what a getStudent called in a state of the two maps returns, some steps
\* after its call
GetStudentReturnsStateAtCall ==
    Done("getStudent") =>
        call.value = getStudent(call.atStudents, call.atSubjects, call.args)

\* C2 (as stated): in every store state, createStudent(input) followed at once
\* by getStudent(input.id) returns the record createStudent returned, which is
\* the input with credits defaulted to 0, createdAt set by the creation and an
\* empty subject list.
C2_GetAfterCreateReturnsCreated ==
    /\ []GetStudentReturnsStateAtCall
    /\ [][(Calls("createStudent") /\ CreateStudent(call'.args)) =>
            /\ CreatedRecordIs(call'.value, call'.args, now)
            /\ getStudent(students', subjects', call'.args.id) = call'.value]_vars

\* C2 (amended): createStudent returns the input with credits defaulted to 0,
\* createdAt set by the creation and an empty subject list; getStudent(input.id)
\* called in the state createStudent leaves returns that record with its
\* subject list replaced by the stored subjects whose studentId is input.id, so
\* the two are equal when the store holds no such subject.
C2_GetAfterCreateReturnsCreatedJoined ==
    /\ []GetStudentReturnsStateAtCall
    /\ [][(Calls("createStudent") /\ CreateStudent(call'.args)) =>
            LET id == call'.args.id
            IN  /\ CreatedRecordIs(call'.value, call'.args, now)
                /\ getStudent(students', subjects', id) =
                        Spread(call'.value,
                               [subjects |-> getSubjectsByStudentId(subjects', id)])
                /\ (getSubjectsByStudentId(subjects', id) = <<>>
                        => getStudent(students', subjects', id) = call'.value)]_vars

\* a student was just created over a stored one, with credits missing, after
\* the clock moved, while the store holds a subject of that key
C2_Witness ==
    /\ Done("createStudent")
    /\ call.writes = 0
    /\ "credits" \notin DOMAIN call.args
    /\ call.value.credits = Val(0)
    /\ call.value.createdAt = 1
    /\ MapHas(call.atStudents, call.args.id)
    /\ students # call.atStudents
    /\ getSubjectsByStudentId(subjects, call.args.id) # <<>>
    /\ getStudent(students, subjects, call.args.id) # call.value
    /\ Len(students) = 2

\* C5: deleteStudent(id) on a stored key returns true and removes that student
\* alone: getStudent(id) is then not found, getAllStudents() is the former
\* list without it, every other student and all subjects are unchanged, so
\* getSubjectsByStudentId(id) returns what it returned before; on a key that
\* is not stored it returns false and changes nothing.
C5_DeleteRemovesOnlyThatStudent ==
    [][(Calls("deleteStudent") /\ DeleteStudent(call'.args)) =>
            LET id == call'.args
            IN  IF MapHas(students, id)
                THEN /\ call'.value = TRUE
                     /\ getStudent(students', subjects', id) = Undefined
                     /\ students' = RemoveAt(students, KeyPos(students, id))
                     /\ getAllStudents(students', subjects') =
                            RemoveAt(getAllStudents(students, subjects),
                                     KeyPos(students, id))
                     /\ subjects' = subjects
                     /\ getSubjectsByStudentId(subjects', id) =
                            getSubjectsByStudentId(subjects, id)
                ELSE /\ call'.value = FALSE
                     /\ students' = students
                     /\ subjects' = subjects]_vars

\* a stored student was just deleted while another student stays and a subject
\* of the deleted key is still stored
C5_Witness ==
    /\ Done("deleteStudent")
    /\ call.writes = 0
    /\ call.value = TRUE
    /\ MapHas(call.atStudents, call.args)
    /\ ~MapHas(students, call.args)
    /\ Len(students) = 1
    /\ getSubjectsByStudentId(subjects, call.args) # <<>>

\* C7: after construction and any creates, updates and deletes whose inputs give
\* credits not at all, as undefined or as a non-negative integer, every stored
\* student has credits defined as an integer >= 0.
C7_StoredCreditsNonNegative ==
    seed.pc = "ready" =>
        \A i \in 1..Len(students) :
            /\ Get(students[i].v, "credits").t = "val"
            /\ students[i].v.credits.v \in Nat

(***************************************************************************)
(* Properties of the analytics operations and the routes (SpecDash).  A    *)
(* returned value is compared with the maps as they were at the call.      *)
(***************************************************************************)
\* a cgpa text of at most two decimals as an exact number of hundredths
Hundredths(txt) ==
    LET p == DotPos(txt)
        frac == SubSeq(SubSeq(txt, p + 1, Len(txt)) \o <<"0", "0">>, 1, 2)
    IN  BigToNat(DigitsValue(SubSeq(txt, 1, p - 1) \o frac))

RECURSIVE SumHundredths(_)
SumHundredths(list) ==
    IF list = <<>> THEN 0
    ELSE SumHundredths(Tail(list)) + Hundredths(Head(list).cgpa)

\* in how many of the three lists a record is
ListsHolding(ret, c) ==
    Cardinality({j \in 1..3 :
        c \in Range(<<ret.deansListStudents, ret.probationStudents,
                      ret.goodStandingStudents>>[j])})

\* C3: getDashboardPerformance puts each candidate in exactly one of the three
\* lists, a candidate with cgpa < 2.00 and credits = 0 excepted, who is in none;
\* the Dean's List holds the candidates with cgpa >= 3.75 and credits >= 12, and
\* every listed student is a candidate.
C3_EachCandidateInOneList ==
    Done("getDashboardPerformance") =>
        LET list == performanceStudents(call.atStudents, call.atSubjects, call.args)
        IN  /\ \A i \in 1..Len(list) :
                /\ ListsHolding(call.value, list[i]) =
                        (IF Hundredths(list[i].cgpa) < 200 /\ list[i].credits = Val(0)
                         THEN 0 ELSE 1)
                /\ (list[i] \in Range(call.value.deansListStudents)) <=>
                        (Hundredths(list[i].cgpa) >= 375 /\ NumGE(list[i].credits, 12))
            /\ Range(call.value.deansListStudents)
                    \cup Range(call.value.probationStudents)
                    \cup Range(call.value.goodStandingStudents) \subseteq Range(list)

\* C4: getDashboardMetrics returns the number of candidates, the number of them
\* with cgpa >= 3.75 and credits >= 12, the number with cgpa < 2.00 whatever
\* their credits (a candidate with cgpa < 2.00 and no credits is counted though
\* getDashboardPerformance lists it nowhere), and the mean cgpa rounded to two
\* decimals (the nearest hundredth, a half going up), or 0 without candidates.
C4_MetricsCountAndAverage ==
    Done("getDashboardMetrics") =>
        LET list == metricsStudents(call.atStudents, call.atSubjects, call.args)
            n == Len(list)
            total == SumHundredths(list)
            perf == getDashboardPerformance(call.atStudents, call.atSubjects, call.args)
        IN  /\ call.value.totalStudents = n
            /\ call.value.deansListCount =
                    Cardinality({i \in 1..n :
                        Hundredths(list[i].cgpa) >= 375 /\ NumGE(list[i].credits, 12)})
            /\ call.value.probationCount =
                    Cardinality({i \in 1..n : Hundredths(list[i].cgpa) < 200})
            /\ \A i \in 1..n :
                    (Hundredths(list[i].cgpa) < 200 /\ list[i].credits = Val(0))
                        => ListsHolding(perf, list[i]) = 0
            /\ n = 0 => call.value.averageCGPA = 0
            /\ n > 0 =>
                    /\ 2 * n * call.value.averageCGPA <= 2 * total + n
                    /\ 2 * total + n < 2 * n * (call.value.averageCGPA + 1)

\* the students a filter key stands for: all of them when the key is absent or
\* "all", else those whose intake is the key
KeyedStudents(semester, studs, subjs) ==
    IF semester = Undefined \/ semester = Val("all")
    THEN getAllStudents(studs, subjs)
    ELSE getStudentsBySemester(studs, subjs, semester.v)

\* C6: getDashboardMetrics(k) and getDashboardPerformance(k) compute over all
\* students when k is absent or "all", and for every other key, the empty
\* string included, over getStudentsBySemester(k).
C6_DashboardsComputeOverKeyedStudents ==
    /\ Done("getDashboardMetrics") =>
            call.value = metricsOf(KeyedStudents(call.args, call.atStudents,
                                                 call.atSubjects))
    /\ Done("getDashboardPerformance") =>
            call.value = performanceOf(KeyedStudents(call.args, call.atStudents,
                                                     call.atSubjects))

\* C10: GET /api/dashboard/performance?semester=k answers with the performance
\* data of k, as getDashboardPerformance(k) and the route with the path
\* parameter return it, not with a 500 response.
C10_PerformanceQueryRouteAnswers ==
    Done(RouteQuery) =>
        /\ call.value.status = 200
        /\ call.value.body =
                getDashboardPerformance(call.atStudents, call.atSubjects, call.args)

(***************************************************************************)
(* Properties of construction (SpecSeed).                                  *)
(***************************************************************************)
\* C9: when the startup load fails, in the parser or while a parsed record is
\* loaded after others were stored, construction still completes and the store
\* holds both fallback students, which getStudent and getAllStudents return.
C9_FailedLoadLeavesFallbackStudents ==
    /\ seed.pc = "catch" => ENABLED SeedCatch
    /\ seed.pc \in {"parse", "students", "subjects", "catch", "ready"}
    /\ (seed.pc = "ready" /\ seed.failed) =>
        \A i \in 1..Len(sampleStudents) :
            LET s == sampleStudents[i]
                got == getStudent(students, subjects, s.id)
            IN  /\ MapHas(students, s.id)
                /\ got # Undefined
                /\ \A f \in DOMAIN s : got[f] = s[f]
                /\ got \in Range(getAllStudents(students, subjects))
                /\ (Done("getStudent") /\ call.args = s.id) => call.value = got
                /\ Done("getAllStudents") => got \in Range(call.value)

\* the load failed on a null record after a parsed student was stored: that
\* student stays, and getAllStudents returns it with the two fallback students
C9_Witness ==
    /\ seed.pc = "ready"
    /\ seed.failed
    /\ Done("getAllStudents")
    /\ Len(call.value) = 3
    /\ call.value[1].id = "A0003"
    /\ {call.value[2].id, call.value[3].id} = {"A0001", "A0002"}

(***************************************************************************)
(* Properties of reads in flight (SpecAsync).                              *)
(***************************************************************************)
\* the result of a read taken of one state of the two collections
ReadOf(op, args, studs, subjs) ==
    CASE op = "getStudent" -> getStudent(studs, subjs, args)
      [] op = "getAllStudents" -> getAllStudents(studs, subjs)
      [] op = "getStudentsBySemester" -> getStudentsBySemester(studs, subjs, args)
      [] op = "getDashboardMetrics" -> getDashboardMetrics(studs, subjs, args)
      [] op = "getDashboardPerformance" -> getDashboardPerformance(studs, subjs, args)

\* C8: with writes called while a read is in flight, the read returns the
\* result of one single state of the student and subject collections that
\* existed between its call and its return (the state at its call): it never
\* joins students read before a write with subjects read after it.
C8_ReadReturnsOneState ==
    (call # Idle /\ call.stack = <<>>) =>
        call.value = ReadOf(call.op, call.args, call.atStudents, call.atSubjects)

\* a getAllStudents about to return two students, one with a subject, after
\* both collections were written since its call
C8_Witness ==
    /\ call # Idle
    /\ call.stack = <<>>
    /\ call.op = "getAllStudents"
    /\ Len(call.value) = 2
    /\ students # call.atStudents
    /\ subjects # call.atSubjects
    /\ call.value # getAllStudents(students, subjects)

====
